---- MODULE Spec2Model ----
(***************************************************************************)
(* Model of package logger (src/logger.go): a process-wide logging         *)
(* facility made of the package variables logFile and logger and the       *)
(* functions InitLogger, Close, Log, Info, Warn and Error.                 *)
(*                                                                         *)
(* Text is a sequence of atoms.  An atom is one character ("/", ".",       *)
(* "\n", a letter) or an indivisible unit of text (an identifier, a        *)
(* decimal number, a literal piece of a format string).                    *)
(***************************************************************************)
EXTENDS Integers, Sequences, FiniteSets, TLC

VARIABLES
    fs,         \* the file system: name -> "none" | "dir" | "file"
    disk,       \* content of every regular file: name -> text
    heap,       \* the os.File objects created so far: handle -> [name, closed]
    logFile,    \* package variable logFile: 0 (nil) or a handle
    logger,     \* package variable logger: 0 (nil) or the handle it writes to
    last,       \* the call that ran last: its inputs and what it returned
    ncalls,     \* number of calls made so far
    ustack,     \* the stack of the calling program, innermost frame first
    live,       \* history: an InitLogger succeeded and no Close was called since
    wrote,      \* history: the handles through which text reached a file
    pc,         \* concurrent callers: position of each caller inside Log
    loc,        \* concurrent callers: the locals of each caller's Log call
    mu,         \* the logger's output mutex: 0 (free) or the caller holding it
    completed   \* history: the outputs of the Log calls that returned, in order

vars == <<fs, disk, heap, logFile, logger, last, ncalls, ustack, live, wrote,
          pc, loc, mu, completed>>

seqVars == <<pc, loc, mu, completed>>

----------------------------------------------------------------------------
(* Bounds *)

MaxCalls == 5        \* calls made in one behaviour
MaxDepth == 2        \* frames of the calling program's functions on a stack
MaxStackCalls == 2   \* calls made in one behaviour when the stack is arbitrary
MaxConcCalls == 3    \* logging calls made by the concurrent callers together

----------------------------------------------------------------------------
(* Program constants *)

INFO == 0
WARN == 1
ERROR == 2

Pid == 1234                     \* os.Getpid(): fixed for the life of the process
timeFormat == "2006-01-02 15:04:05"

Levels == {INFO, WARN, ERROR}
LogLevels == {INFO, WARN, ERROR, 3}      \* LogLevel is an int: 3 is no named level

NL == "\n"

----------------------------------------------------------------------------
(* Text helpers *)

\* strings.LastIndex(s, sep) for a one-atom separator, 1-based; 0 when absent
\* (Go: 0-based, -1 when absent).
LastIndex(s, sep) ==
    LET hits == {i \in 1..Len(s) : s[i] = sep}
    IN  IF hits = {} THEN 0 ELSE CHOOSE i \in hits : \A j \in hits : j <= i

\* s[i+1:] of Go with the 1-based index above
After(s, i) == SubSeq(s, i + 1, Len(s))

Count(s, a) == Cardinality({i \in 1..Len(s) : s[i] = a})

IsPrefix(s, t) == Len(s) <= Len(t) /\ SubSeq(t, 1, Len(s)) = s

RECURSIVE Flatten(_)
Flatten(ss) == IF ss = <<>> THEN <<>> ELSE Head(ss) \o Flatten(Tail(ss))

\* the tail of fmt.Sprintf's result when operands are left over
RECURSIVE ExtraArgs(_)
ExtraArgs(args) ==
    IF args = <<>> THEN <<>>
    ELSE <<"int=", ToString(Head(args))>>
         \o (IF Tail(args) = <<>> THEN <<>> ELSE <<", ">>)
         \o ExtraArgs(Tail(args))

\* fmt.Sprintf(format, args...) for formats whose only verb is %d and integer
\* operands
RECURSIVE Sprintf(_, _)
Sprintf(format, args) ==
    IF format = <<>>
    THEN IF args = <<>> THEN <<>> ELSE <<"%!(EXTRA ">> \o ExtraArgs(args) \o <<")">>
    ELSE IF Head(format) = "%d"
         THEN IF args = <<>>
              THEN <<"%!d(MISSING)">> \o Sprintf(Tail(format), args)
              ELSE <<ToString(Head(args))>> \o Sprintf(Tail(format), Tail(args))
         ELSE <<Head(format)>> \o Sprintf(Tail(format), args)

----------------------------------------------------------------------------
(* The file system *)

\* filepath.Dir(path) for paths without doubled or trailing separators
Dir(path) ==
    LET i == LastIndex(path, "/")
    IN  IF i = 0 THEN <<".">>
        ELSE IF i = 1 THEN <<"/">>
        ELSE SubSeq(path, 1, i - 1)

Paths == { <<"a.log">>, <<"d">>, <<"d", "/", "b.log">> }

Nodes == Paths \cup {Dir(p) : p \in Paths}

\* os.MkdirAll(path, 0755): [err, fs]
RECURSIVE MkdirAll(_, _)
MkdirAll(f, path) ==
    IF f[path] = "dir" THEN [err |-> FALSE, fs |-> f]
    ELSE IF f[path] = "file" THEN [err |-> TRUE, fs |-> f]
    ELSE LET par == MkdirAll(f, Dir(path))
         IN  IF par.err THEN par
             ELSE [err |-> FALSE, fs |-> [par.fs EXCEPT ![path] = "dir"]]

\* What opening leaves in a file that already exists: O_APPEND without O_TRUNC
\* keeps the content.
OpenTruncates(old) == <<>>
OpenContent(old) == old

\* os.OpenFile(name, O_APPEND|O_CREATE|O_WRONLY, 0644): [err, fs, disk]
OpenFile(f, d, name) ==
    IF f[name] = "dir" THEN [err |-> TRUE, fs |-> f, disk |-> d]
    ELSE IF f[name] = "file"
         THEN [err |-> FALSE, fs |-> f, disk |-> [d EXCEPT ![name] = OpenContent(@)]]
         ELSE [err |-> FALSE, fs |-> [f EXCEPT ![name] = "file"],
               disk |-> [d EXCEPT ![name] = <<>>]]

\* A write through a closed os.File fails with os.ErrClosed and writes nothing.
WriteAnyway(h) == TRUE
Writable(h) == ~heap[h].closed

\* (*os.File).Write(data) on handle h: [err, disk]
FileWrite(d, h, data) ==
    IF Writable(h)
    THEN [err |-> FALSE, disk |-> [d EXCEPT ![heap[h].name] = @ \o data]]
    ELSE [err |-> TRUE, disk |-> d]

----------------------------------------------------------------------------
(* The call stack *)

Frame(file, line, fn) == [file |-> file, line |-> line, fn |-> fn]

LogFrame == Frame(<<"/", "logger", "/", "logger.go">>, 80, <<"logger", ".", "Log">>)

WrapperFrame(op) ==
    Frame(<<"/", "logger", "/", "logger.go">>,
          CASE op = "Info" -> 131 [] op = "Warn" -> 141 [] OTHER -> 151,
          <<"logger", ".", op>>)

\* The frames every goroutine's stack ends in.  The Go runtime starts the main
\* goroutine in runtime.goexit -> runtime.main -> main.main and every other
\* goroutine in runtime.goexit -> its function, so main.main is never the
\* outermost frame.  The runtime's line numbers are those of one toolchain.
MainMain == Frame(<<"/", "app", "/", "main.go">>, 12, <<"main", ".", "main">>)

RuntimeMain ==
    Frame(<<"/", "go", "/", "src", "/", "runtime", "/", "proc.go">>, 283,
          <<"runtime", ".", "main">>)

Goexit ==
    Frame(<<"/", "go", "/", "src", "/", "runtime", "/", "asm_amd64.s">>, 1700,
          <<"runtime", ".", "goexit">>)

\* frames of functions of the calling program
UserFrames ==
    { Frame(<<"/", "app", "/", "srv.go">>, 7, <<"app", ".", "(*T)", ".", "Run">>),
      Frame(<<"/", "app", "/", "main.go">>, 30, <<"main", ".", "main", ".", "func1">>) }

\* up to n frames of the calling program, innermost first
Frames(n) == UNION { [1..k -> UserFrames] : k \in 0..n }

\* The stacks a call can be made from: on the main goroutine, under main.main;
\* on another goroutine, under the goroutine's function, or as the goroutine's
\* function itself (go logger.Info(...)), with runtime.goexit as the only frame
\* beneath.
UserStacks ==
    {s \o <<MainMain, RuntimeMain, Goexit>> : s \in Frames(MaxDepth - 1)}
    \cup {s \o <<Goexit>> : s \in Frames(MaxDepth)}

\* the call is made by main.main
MainStacks == { <<MainMain, RuntimeMain, Goexit>> }

NoFrame == Frame(<<>>, 0, <<>>)

\* runtime.Caller(skip), called in Log with stack stk (stk[1] is Log's frame):
\* [ok, frame]
CallerSkip == 2

CallerOffByOne(stk, skip) ==
    IF skip <= Len(stk) THEN [ok |-> TRUE, frame |-> stk[skip]]
    ELSE [ok |-> FALSE, frame |-> NoFrame]

Caller(stk, skip) ==
    IF skip + 1 <= Len(stk) THEN [ok |-> TRUE, frame |-> stk[skip + 1]]
    ELSE [ok |-> FALSE, frame |-> NoFrame]

\* lines 87-90
ShortFile(file) ==
    LET lastSlash == LastIndex(file, "/")
    IN  IF lastSlash >= 1 THEN After(file, lastSlash) ELSE file

\* lines 93-96; the name of the nil *Func of pc 0 is ""
FuncName(name) ==
    LET lastDot == LastIndex(name, ".")
    IN  IF lastDot >= 1 THEN After(name, lastDot) ELSE name

\* lines 99-107
LevelStrLong(level) ==
    CASE level = INFO -> "INFO"
      [] level = WARN -> "WARN"
      [] level = ERROR -> "ERROR"
      [] OTHER -> ""

LevelStr(level) ==
    CASE level = INFO -> "INFO"
      [] level = WARN -> "WARN"
      [] level = ERROR -> "ERR"
      [] OTHER -> ""

\* lines 80-96: what Log captures of its caller
Capture(stk) ==
    LET c    == Caller(stk, CallerSkip)
        file == IF c.ok THEN c.frame.file ELSE <<"unknown">>
        line == IF c.ok THEN c.frame.line ELSE 0
    IN  [shortFile |-> ShortFile(file), line |-> line, funcName |-> FuncName(c.frame.fn)]

\* lines 111-119: fmt.Sprintf("%s [%s] (%d)%s:%d %s - %s", ...).  The timestamp
\* time.Now().Format(timeFormat) is one atom, written as its layout.
LogMsg(level, cap, message) ==
    <<timeFormat, " [", LevelStr(level), "] (", ToString(Pid), ")">>
    \o cap.shortFile
    \o <<":", ToString(cap.line), " ">>
    \o cap.funcName
    \o <<" - ">>
    \o message

\* logger.Println(logMsg): the bytes handed to the output's Write
LineOut(logMsg) == logMsg \o <<NL>>

----------------------------------------------------------------------------
(* Initial state *)

NoCap == [shortFile |-> <<>>, line |-> 0, funcName |-> <<>>]

NoCall == [op |-> "none", err |-> FALSE, name |-> <<>>, level |-> 0,
           message |-> <<>>, cap |-> NoCap, out |-> <<>>]

Callers == {1, 2}

NoLocals == [op |-> "none", level |-> 0, message |-> <<>>, stack |-> <<>>,
             lg |-> 0, buf |-> <<>>, sent |-> 0, failed |-> FALSE]

\* The package variables are nil (lines 25-30); the directory "d" may or may
\* not exist beforehand, as a directory or as a regular file.
InitWith(stacks) ==
    /\ \E k \in {"none", "dir", "file"} :
          fs = [n \in Nodes |-> IF n = <<".">> THEN "dir"
                                ELSE IF n = <<"d">> THEN k ELSE "none"]
    /\ disk = [n \in Paths |-> <<>>]
    /\ heap = <<>>
    /\ logFile = 0
    /\ logger = 0
    /\ last = NoCall
    /\ ncalls = 0
    /\ ustack \in stacks
    /\ live = FALSE
    /\ wrote = {}
    /\ pc = [c \in Callers |-> "idle"]
    /\ loc = [c \in Callers |-> NoLocals]
    /\ mu = 0
    /\ completed = <<>>

Init == InitWith(MainStacks)

----------------------------------------------------------------------------
(* Operations, each call running alone *)

\* line 53: logger = log.New(logFile, "", 0).  The os.File held before is not
\* closed: it stays in heap, open, reachable from no package variable.
KeepFirstLogger(old, h) == IF old = 0 THEN h ELSE old
NewLogger(old, h) == h

\* lines 47-51: what a failed os.OpenFile leaves in logFile
FailedOpenLogFile(old) == 0

InitLogger(filename) ==
    /\ ncalls < MaxCalls
    /\ LET mk == MkdirAll(fs, Dir(filename))
           op == OpenFile(mk.fs, disk, filename)
           h  == Len(heap) + 1
       IN  IF mk.err
           THEN /\ last' = [NoCall EXCEPT !.op = "InitLogger", !.err = TRUE,
                                          !.name = filename]
                /\ UNCHANGED <<fs, disk, heap, logFile, logger, live>>
           ELSE IF op.err
           THEN /\ fs' = op.fs
                /\ logFile' = FailedOpenLogFile(logFile)
                /\ last' = [NoCall EXCEPT !.op = "InitLogger", !.err = TRUE,
                                          !.name = filename]
                /\ UNCHANGED <<disk, heap, logger, live>>
           ELSE /\ fs' = op.fs
                /\ disk' = op.disk
                /\ heap' = Append(heap, [name |-> filename, closed |-> FALSE])
                /\ logFile' = h
                /\ logger' = NewLogger(logger, h)
                /\ live' = TRUE
                /\ last' = [NoCall EXCEPT !.op = "InitLogger", !.name = filename]
    /\ ncalls' = ncalls + 1
    /\ UNCHANGED <<ustack, wrote>>
    /\ UNCHANGED seqVars

\* (*os.File).Close on handle h: [err, heap]
FileClose(hp, h) ==
    IF hp[h].closed THEN [err |-> TRUE, heap |-> hp]
    ELSE [err |-> FALSE, heap |-> [hp EXCEPT ![h].closed = TRUE]]

Close ==
    /\ ncalls < MaxCalls
    /\ IF logFile # 0
       THEN LET r == FileClose(heap, logFile)
            IN  /\ heap' = r.heap
                /\ last' = [NoCall EXCEPT !.op = "Close", !.err = r.err]
       ELSE /\ heap' = heap
            /\ last' = [NoCall EXCEPT !.op = "Close"]
    /\ live' = FALSE
    /\ ncalls' = ncalls + 1
    /\ UNCHANGED <<fs, disk, logFile, logger, ustack, wrote>>
    /\ UNCHANGED seqVars

\* line 75: the guard of Log
PassGuard(lg) == FALSE
LoggerIsNil(lg) == lg = 0

\* line 121: logger.Println(logMsg) on logger lg: [panic, err, disk].  A method
\* call through a nil *log.Logger panics; the error of the write is dropped.
LoggerPrintln(d, lg, logMsg) ==
    IF lg = 0 THEN [panic |-> TRUE, err |-> FALSE, disk |-> d]
    ELSE LET w == FileWrite(d, lg, LineOut(logMsg))
         IN  [panic |-> FALSE, err |-> w.err, disk |-> w.disk]

\* Log(level, message) entered through op with runtime stack stk
LogBody(op, level, message, stk) ==
    /\ ncalls < MaxCalls
    /\ IF LoggerIsNil(logger)
       THEN /\ last' = [NoCall EXCEPT !.op = op, !.level = level, !.message = message]
            /\ UNCHANGED <<disk, wrote>>
       ELSE LET cap    == Capture(stk)
                logMsg == LogMsg(level, cap, message)
                r      == LoggerPrintln(disk, logger, logMsg)
            IN  /\ disk' = r.disk
                /\ wrote' = IF r.panic \/ r.err THEN wrote ELSE wrote \cup {logger}
                /\ last' = [NoCall EXCEPT !.op = op, !.err = r.panic, !.level = level,
                                          !.message = message, !.cap = cap,
                                          !.out = LineOut(logMsg)]
    /\ ncalls' = ncalls + 1
    /\ UNCHANGED <<fs, heap, logFile, logger, ustack, live>>
    /\ UNCHANGED seqVars

Log(level, message) == LogBody("Log", level, message, <<LogFrame>> \o ustack)

Wrapper(op, level, format, args) ==
    LogBody(op, level, Sprintf(format, args), <<LogFrame, WrapperFrame(op)>> \o ustack)

Info(format, args) == Wrapper("Info", INFO, format, args)
Warn(format, args) == Wrapper("Warn", WARN, format, args)
Error(format, args) == Wrapper("Error", ERROR, format, args)

----------------------------------------------------------------------------
(* Inputs and the sequential specifications *)

WrapperInputs == { << <<"v=", "%d">>, <<42>> >>, << <<"a", NL, "b">>, <<>> >> }
LogInputs == { <<3, <<"m">> >>, <<INFO, <<"m", NL>> >> }

Next ==
    \/ \E p \in Paths : InitLogger(p)
    \/ Close
    \/ \E i \in WrapperInputs : Info(i[1], i[2])
    \/ \E i \in WrapperInputs : Warn(i[1], i[2])
    \/ \E i \in WrapperInputs : Error(i[1], i[2])
    \/ \E i \in LogInputs : Log(i[1], i[2])

Spec == Init /\ [][Next]_vars

\* The same calls made from an arbitrary stack of the calling program
InitStack == InitWith(UserStacks)

NextStack ==
    /\ ncalls < MaxStackCalls
    /\ Next

SpecStack == InitStack /\ [][NextStack]_vars

----------------------------------------------------------------------------
(* Concurrent callers.  The main goroutine initializes the facility, then   *)
(* the callers run the wrappers concurrently.  A caller's Log call is the   *)
(* steps: guard and formatting (lines 75-119), logger.Println (line 121),  *)
(* which takes the logger's output mutex and writes the line with as many  *)
(* write system calls as the system needs, and the return.                 *)

Active == {c \in Callers : pc[c] # "idle"}

\* Info/Warn/Error: interpolate and enter Log
Call(c, op, level, format, args) ==
    /\ pc[c] = "idle"
    /\ logger # 0
    /\ Cardinality(Active) + Len(completed) < MaxConcCalls
    /\ pc' = [pc EXCEPT ![c] = "guard"]
    /\ loc' = [loc EXCEPT ![c] = [NoLocals EXCEPT !.op = op, !.level = level,
                                     !.message = Sprintf(format, args),
                                     !.stack = <<LogFrame, WrapperFrame(op)>> \o ustack]]
    /\ UNCHANGED <<fs, disk, heap, logFile, logger, last, ncalls, ustack, live, wrote,
                   mu, completed>>

\* lines 75-119
Format(c) ==
    /\ pc[c] = "guard"
    /\ IF LoggerIsNil(logger)
       THEN /\ pc' = [pc EXCEPT ![c] = "idle"]
            /\ loc' = [loc EXCEPT ![c] = NoLocals]
       ELSE /\ pc' = [pc EXCEPT ![c] = "println"]
            /\ loc' = [loc EXCEPT ![c].buf =
                          LogMsg(loc[c].level, Capture(loc[c].stack), loc[c].message)]
    /\ UNCHANGED <<fs, disk, heap, logFile, logger, last, ncalls, ustack, live, wrote,
                   mu, completed>>

\* the logger's output mutex lets one caller write at a time
NoMutex(c) == TRUE
MutexFree(c) == mu = 0

\* line 121, first half: read logger, build the line, take the output mutex
Lock(c) ==
    /\ pc[c] = "println"
    /\ MutexFree(c)
    /\ mu' = c
    /\ pc' = [pc EXCEPT ![c] = "write"]
    /\ loc' = [loc EXCEPT ![c].lg = logger, ![c].buf = LineOut(@)]
    /\ UNCHANGED <<fs, disk, heap, logFile, logger, last, ncalls, ustack, live, wrote,
                   completed>>

\* line 121, the write: one write system call takes k of the atoms left
WriteChunk(c, k) ==
    /\ pc[c] = "write"
    /\ ~loc[c].failed
    /\ loc[c].sent + k <= Len(loc[c].buf)
    /\ LET w == FileWrite(disk, loc[c].lg,
                          SubSeq(loc[c].buf, loc[c].sent + 1, loc[c].sent + k))
       IN  /\ disk' = w.disk
           /\ loc' = IF w.err THEN [loc EXCEPT ![c].failed = TRUE]
                     ELSE [loc EXCEPT ![c].sent = @ + k]
           /\ wrote' = IF w.err THEN wrote ELSE wrote \cup {loc[c].lg}
    /\ UNCHANGED <<fs, heap, logFile, logger, last, ncalls, ustack, live,
                   pc, mu, completed>>

\* line 121, second half, and the return of Log and of the wrapper
Unlock(c) ==
    /\ pc[c] = "write"
    /\ loc[c].failed \/ loc[c].sent = Len(loc[c].buf)
    /\ mu' = 0
    /\ pc' = [pc EXCEPT ![c] = "idle"]
    /\ completed' = IF loc[c].failed THEN completed ELSE Append(completed, loc[c].buf)
    /\ loc' = [loc EXCEPT ![c] = NoLocals]
    /\ UNCHANGED <<fs, disk, heap, logFile, logger, last, ncalls, ustack, live, wrote>>

ConcInputs == { <<"Info", INFO, <<"v=", "%d">>, <<42>> >>,
                <<"Warn", WARN, <<"a", NL, "b">>, <<>> >>,
                <<"Error", ERROR, <<"e">>, <<>> >> }

NextConc ==
    \/ \E p \in Paths : logger = 0 /\ InitLogger(p)
    \/ \E c \in Callers, i \in ConcInputs : Call(c, i[1], i[2], i[3], i[4])
    \/ \E c \in Callers : Format(c)
    \/ \E c \in Callers : Lock(c)
    \/ \E c \in Callers : \E k \in 1..Len(loc[c].buf) : WriteChunk(c, k)
    \/ \E c \in Callers : Unlock(c)

SpecConc == Init /\ [][NextConc]_vars

----------------------------------------------------------------------------
(* Properties *)

Wrappers == {"Info", "Warn", "Error"}
LogOps == Wrappers \cup {"Log"}

\* the step is one call of an operation of ops
Step(ops) == ncalls' = ncalls + 1 /\ last'.op \in ops

ExpectedTag(op) ==
    CASE op = "Info" -> "INFO" [] op = "Warn" -> "WARN" [] op = "Error" -> "ERR"

EndsWith(s, t) == Len(t) <= Len(s) /\ SubSeq(s, Len(s) - Len(t) + 1, Len(s)) = t

\* seg is what follows the last sep of s (all of s when s has no sep)
FinalSegment(seg, s, sep) ==
    /\ \A i \in 1..Len(seg) : seg[i] # sep
    /\ \E i \in 0..Len(s) : After(s, i) = seg /\ (i = 0 \/ s[i] = sep)

OpenHandles == {h \in DOMAIN heap : ~heap[h].closed}

\* What a wrapper call adds to the current log file while the facility is
\* initialized: the file the logger writes to grows by one piece of text that
\* ends in a newline and carries the wrapper's level tag, no other file changes,
\* and newlines(added, message) holds of the text added.
WrapperAppends(newlines(_, _)) ==
    (live /\ Step(Wrappers)) =>
        LET p     == heap[logger].name
            added == After(disk'[p], Len(disk[p]))
        IN  /\ IsPrefix(disk[p], disk'[p])
            /\ \A q \in Paths \ {p} : disk'[q] = disk[q]
            /\ Len(added) >= 4
            /\ added[Len(added)] = NL
            /\ added[3] = ExpectedTag(last'.op)
            /\ EndsWith(added, last'.message \o <<NL>>)
            /\ newlines(added, last'.message)

OneLine(added, message) == Count(added, NL) = 1
OneRecord(added, message) == Count(added, NL) = 1 + Count(message, NL)

\* C1 as stated: while the facility is initialized, every call to Info, Warn or
\* Error appends exactly one newline-terminated line to the current log file,
\* with the level tag INFO, WARN or ERR of the wrapper.
C1_AppendsOneLine == [][WrapperAppends(OneLine)]_vars

\* C1 as amended: while the facility is initialized, every call to Info, Warn or
\* Error appends to the current log file exactly one record, the rendered text
\* followed by one newline, with the level tag INFO, WARN or ERR of the wrapper;
\* the record holds one newline more than the interpolated message, so it is a
\* single line exactly when the message has no newline.
C1_AppendsOneRecord == [][WrapperAppends(OneRecord)]_vars

C1_Witness ==
    /\ live
    /\ last.op \in Wrappers
    /\ Count(last.message, NL) >= 1
    /\ last.out # <<>>
    /\ EndsWith(disk[heap[logger].name], last.out)

\* C2: while no InitLogger has succeeded, a call to Log, Info, Warn or Error
\* writes nothing to any file, reports no error and leaves logFile and logger
\* as they were.
C2_SilentBeforeInit ==
    [][(heap = <<>> /\ Step(LogOps)) =>
          /\ disk' = disk
          /\ fs' = fs
          /\ ~last'.err
          /\ logFile' = logFile /\ logger' = logger /\ heap' = heap]_vars

C2_Witness ==
    /\ heap = <<>>
    /\ last.op \in LogOps
    /\ ncalls >= 2

\* C3: Close is idempotent: every call to Close returns success, also the second
\* and later ones of a row of calls after a successful InitLogger.
C3_CloseAlwaysSucceeds == (last.op = "Close") => ~last.err

\* C4: after InitLogger succeeded on A and then on a different B, a logging call
\* changes no file but B, never A, and while the facility is initialized it
\* appends its line to B.
C4_WritesOnlyToSecond ==
    [][(/\ Step(LogOps)
        /\ Len(heap) >= 2
        /\ heap[Len(heap)].name # heap[Len(heap) - 1].name) =>
          LET A == heap[Len(heap) - 1].name
              B == heap[Len(heap)].name
          IN  /\ disk'[A] = disk[A]
              /\ \A q \in Paths \ {B} : disk'[q] = disk[q]
              /\ live => disk'[B] = disk[B] \o last'.out /\ last'.out # <<>>]_vars

C4_Witness ==
    /\ Len(heap) >= 2
    /\ heap[Len(heap)].name # heap[Len(heap) - 1].name
    /\ {Len(heap) - 1, Len(heap)} \subseteq wrote
    /\ last.op \in LogOps
    /\ last.out # <<>>
    /\ EndsWith(disk[heap[Len(heap)].name], last.out)

\* C5: the log file is append-only across reopen: no call removes or changes
\* text already in a file, InitLogger on a path opened before succeeds and
\* leaves the content of every file as it is, and a logging call made while the
\* facility is initialized adds its line at the end of the current file.
C5_AppendOnlyAcrossReopen ==
    [][/\ \A p \in Paths : IsPrefix(disk[p], disk'[p])
       /\ (Step({"InitLogger"}) /\ \E h \in DOMAIN heap : heap[h].name = last'.name) =>
             /\ ~last'.err
             /\ disk' = disk
             /\ logger' = Len(heap') /\ logger' # Len(heap)
             /\ heap'[logger'] = [name |-> last'.name, closed |-> FALSE]
       /\ (Step(LogOps) /\ live) =>
             disk'[heap[logger].name] = disk[heap[logger].name] \o last'.out]_vars

C5_Witness ==
    /\ last.op \in LogOps
    /\ \E h1, h2 \in DOMAIN heap :
          /\ h1 < h2
          /\ h2 = logger
          /\ heap[h1].name = heap[h2].name
          /\ heap[h1].closed
          /\ {h1, h2} \subseteq wrote
          /\ EndsWith(disk[heap[h2].name], last.out)
          /\ Len(disk[heap[h2].name]) > Len(last.out)

\* C6: a logging call never surfaces an error: it returns normally and leaves
\* logFile, logger and the file objects as they were, and when the logger's
\* file was closed it writes nothing to any file.
C6_WriteFailureIsSilent ==
    [][Step(LogOps) =>
          /\ ~last'.err
          /\ logFile' = logFile /\ logger' = logger /\ heap' = heap /\ fs' = fs
          /\ (logger # 0 /\ heap[logger].closed) => disk' = disk]_vars

C6_Witness ==
    /\ last.op \in LogOps
    /\ last.out # <<>>
    /\ logger # 0
    /\ heap[logger].closed
    /\ \A p \in Paths : ~EndsWith(disk[p], last.out)

\* C7: under every interleaving of concurrent wrapper calls on an initialized
\* facility, the file is the outputs of the calls that returned, each whole and
\* one after the other, followed by what the caller now writing has written of
\* its own output; no output is cut short, lost or mixed with another.
C7_LinesAreWhole ==
    logger # 0 =>
        LET p    == heap[logger].name
            part == IF mu # 0 /\ pc[mu] = "write"
                    THEN SubSeq(loc[mu].buf, 1, loc[mu].sent) ELSE <<>>
        IN  /\ disk[p] = Flatten(completed) \o part
            /\ \A i \in 1..Len(completed) :
                  completed[i] # <<>> /\ completed[i][Len(completed[i])] = NL
            /\ \A q \in Paths \ {p} : disk[q] = <<>>

C7_Witness ==
    /\ Len(completed) = 1
    /\ \E c1, c2 \in Callers :
          /\ c1 # c2
          /\ pc[c1] = "write"
          /\ loc[c1].sent > 0 /\ loc[c1].sent < Len(loc[c1].buf)
          /\ pc[c2] = "println"
          /\ loc[c2].buf # loc[c1].buf

\* C8: a line written through Info, Warn or Error reports the file, the line
\* number and the function of the frame that called the wrapper, the file cut
\* to what follows its last "/" and the function to what follows its last ".",
\* never the frame of Log or of the wrapper.
C8_ReportsCallSite ==
    (last.op \in Wrappers /\ last.out # <<>>) =>
        LET site == ustack[1]
        IN  /\ FinalSegment(last.cap.shortFile, site.file, "/")
            /\ last.cap.line = site.line
            /\ FinalSegment(last.cap.funcName, site.fn, ".")
            /\ last.cap.line \notin {LogFrame.line} \cup {WrapperFrame(w).line : w \in Wrappers}
            /\ SubSeq(last.out, 7, Len(last.out)) =
                  last.cap.shortFile \o <<":", ToString(site.line), " ">>
                  \o last.cap.funcName \o <<" - ">> \o last.message \o <<NL>>

C8_Witness ==
    /\ last.op \in Wrappers
    /\ last.out # <<>>
    /\ Len(ustack) >= 2
    /\ ustack[2] # ustack[1]
    /\ Count(ustack[1].file, "/") >= 2
    /\ Count(ustack[1].fn, ".") >= 2
    /\ EndsWith(disk[heap[logger].name], last.out)

\* C9: in every reachable state at most one output handle is open.
C9_AtMostOneOpen == Cardinality(OpenHandles) <= 1

\* C10: a failed InitLogger leaves logFile and logger as they were, so that in
\* every reachable state the logger is set exactly when the file handle is set.
C10_LoggerIffLogFile == (logger = 0) <=> (logFile = 0)

====
